---- MODULE Spec2Model ----
(***************************************************************************)
(* A model of demonstrations/tutorial_spsa.py: the convenience function    *)
(* run_optimizer (lines 199-232) and the four module-level calls that      *)
(* drive it (lines 263-282 and 397-460).                                   *)
(*                                                                         *)
(* The cost function (a QNode) and the two optimizers are PennyLane        *)
(* objects.  The cost function is a noisy oracle: every evaluation returns *)
(* a value chosen from CostVals, or raises.  One call of opt.step makes    *)
(* the evaluations sections 4.2 and 4.3 of the specification give it (two  *)
(* for SPSA, two per parameter for gradient descent) and returns an array  *)
(* of the shape of its argument; since it is computed from noisy           *)
(* evaluations, the array returned is any vector over ParamVals.           *)
(*                                                                         *)
(* SpecSeeded is the script executed twice with a deterministic cost       *)
(* function: numpy's global generator is seeded (line 187), init_param is  *)
(* drawn from it (line 190), and SPSA draws its perturbations from it.     *)
(* There the step is computed as in section 4.2, with a_k = c_k = 1 and    *)
(* integers for reals.                                                     *)
(***************************************************************************)
EXTENDS Integers, Sequences, FiniteSets

\* ------------------------------------------------------------- bounds

\* the largest number of free parameters, np.prod(param_shape)
MaxP == 2
\* the largest num_steps handed to run_optimizer
MaxSteps == 2
\* the oracle may raise on any of its first MaxFailAt calls
MaxFailAt == 4

\* ------------------------------------------------- program constants

\* the first task measures a single observable (line 177)
SingleTerm == 1
\* the H2 Hamiltonian has 15 terms (lines 331, 399-401, 455-456)
HamiltonianTerms == 15

\* the values an evaluation of the cost function may return (abstracted)
CostVals == {0, 2}
\* the components of a parameter vector (abstracted)
ParamVals == {0, 1}
\* the status intervals of the script's calls (lines 268, 281, 404, 459)
Intervals == {3, 20}
\* the script calls run_optimizer twice with each init_param
\* (lines 267 and 280, lines 403 and 458)
RunsPerInitParam == 2

Strategies == {"SPSA", "GD"}

\* the arguments of np.random.seed (lines 187 and 392)
Seeds == {50, 0}
\* the states of numpy's global generator (abstracted)
RngStates == 0..7

\* array objects: the caller's init_param array, the array the local `param`
\* names once line 201 has run, and "no object yet"
CallerObj == "init_param"
LocalObj == "param"
NoObj == "unbound"
Objs == {CallerObj, LocalObj}

VARIABLES
    opt,            \* the class of the optimizer instance: "SPSA" or "GD"
    terms,          \* terms of the observable measured by cost_function
    p,              \* the number of free parameters
    num_steps,      \* argument num_steps
    interval,       \* argument interval
    execs_per_step, \* argument execs_per_step
    fail_at,        \* the oracle raises on this call of the run (0: never)
    heap,           \* array objects: CallerObj is init_param's array
    param,          \* the object the local `param` refers to
    cost_history,   \* local cost_history
    exec_history,   \* local exec_history
    step,           \* the loop variable
    status,         \* the last status line printed: <<step, execs, cost>>
    pc,             \* position in run_optimizer
    oracle_calls,   \* evaluations of cost_function made during this run
    step_calls,     \* evaluations made inside the current opt.step
    steps_invoked,  \* calls of opt.step begun during this run
    step_arg,       \* the vector passed to the opt.step in progress
    last_ret,       \* the vector opt.step last returned (at first, the copy)
    cost_at,        \* the vector lines 209 and 225 last evaluated the cost at
    noisy,          \* the cost function is a sampling device (shots=1000)
    seed,           \* the argument of np.random.seed
    rng,            \* the state of numpy's global generator
    traj,           \* SpecSeeded: the vectors opt.step returned in this run
    first,          \* SpecSeeded: what the first execution produced
    run,            \* which call of run_optimizer this is
    init_before     \* the caller's parameter values before the first call

vars == << opt, terms, p, num_steps, interval, execs_per_step, fail_at, heap,
           param, cost_history, exec_history, step, status, pc, oracle_calls,
           step_calls, steps_invoked, step_arg, last_ret, cost_at, noisy,
           seed, rng, traj, first, run, init_before >>

\* ------------------------------------------------------------ helpers

Last(s) == s[Len(s)]

Vectors(n, S) == [1..n -> S]

\* ------------------------------------------------ the cost function

\* a cost function without noise: the sum of the squared parameters
\* (section 8 of the specification: f(theta) = theta_0^2)
RECURSIVE SumSquares(_)
SumSquares(theta) ==
    IF theta = << >> THEN 0
    ELSE theta[1] * theta[1] + SumSquares(Tail(theta))

\* the values an evaluation at theta may return
OracleVals(isNoisy, theta) ==
    IF isNoisy THEN CostVals ELSE { SumSquares(theta) }

\* --------------------------------------------- numpy's global generator

\* line 187: np.random.seed(seed) sets the state, whatever it was
\* (faulty variant: the generator is never seeded)
NoSeedState(old, sd) == old
SeedState(old, sd) == sd % 8

\* one draw moves the generator on; its output is the state's high bit
RngAdvance(s) == (5 * s + 3) % 8
RngOutput(s) == s \div 4

RECURSIVE RngAfter(_, _)
RngAfter(s, n) == IF n = 0 THEN s ELSE RngAfter(RngAdvance(s), n - 1)

\* line 190: init_param, n components drawn from the generator in state s
DrawParams(s, n) == [i \in 1..n |-> RngOutput(RngAfter(s, i))]

\* SPSA's perturbation: n components, each +1 or -1
DrawDelta(s, n) ==
    [i \in 1..n |-> IF RngOutput(RngAfter(s, i)) = 1 THEN 1 ELSE -1]

\* nothing recorded of a first execution
NoFirst == [traj |-> << >>, cost |-> << >>, exec |-> << >>, init |-> << >>]

\* ------------------------------------------ the module-level call sites

\* execs_per_step as the script computes it: 2 (line 266), 2 * 15 (line 456)
\* for SPSA; 2 * prod(param_shape) (line 279), 2 * 15 * prod(param_shape)
\* (line 401) for gradient descent
\* (faulty variants, for the sensitivity of the properties: a cost that
\* forgets the number of parameters, and one that charges SPSA for them)
ExecsPerStepNoDim(o, t, n) == 2 * t
ExecsPerStepAllDim(o, t, n) == 2 * t * n
ExecsPerStep(o, t, n) == IF o = "SPSA" THEN 2 * t ELSE 2 * t * n

\* the evaluations of the cost function one call of opt.step makes
StepCalls(o, n) == IF o = "SPSA" THEN 2 ELSE 2 * n

\* ------------------------------------------------------- run_optimizer

\* line 201: init_param.copy() is a new array object
\* (faulty variant: `param = init_param`, no copy)
AliasRef(o) == o
CopyRef(o) == LocalObj

\* lines 209 and 225: cost_history.append(...); line 226: exec_history.append
\* (faulty variant: the list rebuilt from the new entry alone)
RecordOverwrite(h, x) == << x >>
Record(h, x) == Append(h, x)

\* lines 209 and 225: cost_function(param)
CostArg(h, ref) == h[ref]

\* line 222: opt.step(cost_function, param)
StepArg(h, ref) == h[ref]

\* line 210
InitExecHistory == << 0 >>

\* line 213: range(num_steps) yields s + 1 after s (0 after the unbound -1)
\* (faulty variant: range(num_steps + 1))
RangeHasNextInclusive(s, n) == s + 1 <= n
RangeHasNext(s, n) == s + 1 < n

\* line 215
StatusDue(s, i) == s % i = 0

\* line 226
\* (faulty variants: step * execs_per_step; execs_per_step alone; a count
\* that adds the evaluation of line 225 to every step)
NextExecFromStep(s, e) == s * e
NextExecFlat(s, e) == e
NextExecCountsMonitor(s, e) == (s + 1) * (e + 1)
NextExec(s, e) == (s + 1) * e

\* positions of run_optimizer
PcAfterStart == "cost0"
PcAfterInitialCost == "exec0"
\* (faulty variants: the loop body recording the cost without a step; the
\* count appended right after the step)
PcLoopBodyMonitorFirst == "cost"
PcLoopBody == "step"
PcAfterStepCountFirst == "exec"
PcAfterStep == "cost"
PcAfterCost == "exec"

\* the arguments of the script's second call with the array v (the cost
\* function is the same), and the locals at entry
Enter(v) ==
    /\ opt' \in Strategies
    /\ p' = Len(v)
    /\ num_steps' \in -1..MaxSteps
    /\ interval' \in Intervals
    /\ execs_per_step' = ExecsPerStep(opt', terms, p')
    /\ param' = NoObj
    /\ cost_history' = << >>
    /\ exec_history' = << >>
    /\ step' = -1
    /\ status' = << >>
    /\ pc' = "start"
    /\ oracle_calls' = 0
    /\ step_calls' = 0
    /\ steps_invoked' = 0
    /\ step_arg' = << >>
    /\ last_ret' = << >>
    /\ cost_at' = << >>

Init ==
    /\ opt \in Strategies
    /\ terms \in {SingleTerm, HamiltonianTerms}
    /\ p \in 1..MaxP
    /\ num_steps \in -1..MaxSteps
    /\ interval \in Intervals
    /\ execs_per_step = ExecsPerStep(opt, terms, p)
    /\ fail_at \in 0..MaxFailAt
    /\ init_before \in Vectors(p, ParamVals)
    /\ heap = [o \in Objs |-> IF o = CallerObj THEN init_before ELSE << >>]
    /\ param = NoObj
    /\ cost_history = << >>
    /\ exec_history = << >>
    /\ step = -1
    /\ status = << >>
    /\ pc = "start"
    /\ oracle_calls = 0
    /\ step_calls = 0
    /\ steps_invoked = 0
    /\ step_arg = << >>
    /\ last_ret = << >>
    /\ cost_at = << >>
    /\ noisy = TRUE
    /\ seed = 0
    /\ rng = SeedState(0, seed)
    /\ traj = << >>
    /\ first = NoFirst
    /\ run = 1

config == << opt, terms, p, num_steps, interval, execs_per_step, fail_at,
             run, init_before, noisy, seed, rng, traj, first >>
stepvars == << step_calls, steps_invoked >>
threadvars == << step_arg, last_ret, cost_at >>

\* the next evaluation of the cost function raises
OracleFails == fail_at = oracle_calls + 1

\* lines 201-207
Start ==
    /\ pc = "start"
    /\ param' = CopyRef(CallerObj)
    /\ heap' = [heap EXCEPT ![CopyRef(CallerObj)] = heap[CallerObj]]
    /\ cost_history' = << >>
    /\ pc' = PcAfterStart
    /\ last_ret' = heap[CallerObj]
    /\ UNCHANGED << step_arg, cost_at >>
    /\ UNCHANGED << config, stepvars, exec_history, step, status, oracle_calls >>

\* line 209
InitialCost ==
    /\ pc = "cost0"
    /\ ~OracleFails
    /\ oracle_calls' = oracle_calls + 1
    /\ \E y \in OracleVals(noisy, CostArg(heap, param)) :
         cost_history' = Record(cost_history, y)
    /\ pc' = PcAfterInitialCost
    /\ cost_at' = CostArg(heap, param)
    /\ UNCHANGED << step_arg, last_ret >>
    /\ UNCHANGED << config, stepvars, heap, param, exec_history, step, status >>

\* line 209, the cost function raising: the exception leaves run_optimizer
InitialCostRaises ==
    /\ pc = "cost0"
    /\ OracleFails
    /\ oracle_calls' = oracle_calls + 1
    /\ pc' = "raised"
    /\ UNCHANGED threadvars
    /\ UNCHANGED << config, stepvars, heap, param, cost_history, exec_history,
                    step, status >>

\* line 210
InitExec ==
    /\ pc = "exec0"
    /\ exec_history' = InitExecHistory
    /\ pc' = "loop"
    /\ UNCHANGED threadvars
    /\ UNCHANGED << config, stepvars, heap, param, cost_history, step, status,
                    oracle_calls >>

\* lines 213-219: the next value of range(num_steps) and the status line
LoopNext ==
    /\ pc = "loop"
    /\ RangeHasNext(step, num_steps)
    /\ step' = step + 1
    /\ status' = IF StatusDue(step', interval)
                 THEN << step', exec_history[step' + 1], cost_history[step' + 1] >>
                 ELSE status
    /\ pc' = PcLoopBody
    /\ UNCHANGED threadvars
    /\ UNCHANGED << config, stepvars, heap, param, cost_history, exec_history,
                    oracle_calls >>

\* lines 213, 228-232: the loop is exhausted; the final status line; return
LoopExit ==
    /\ pc = "loop"
    /\ ~RangeHasNext(step, num_steps)
    /\ status' = << num_steps, Last(exec_history), Last(cost_history) >>
    /\ pc' = "done"
    /\ UNCHANGED threadvars
    /\ UNCHANGED << config, stepvars, heap, param, cost_history, exec_history,
                    step, oracle_calls >>

\* ------------------------------------- opt.step(cost_function, param)

\* line 222, the call
StepBegin ==
    /\ pc = "step"
    /\ steps_invoked' = steps_invoked + 1
    /\ step_calls' = 0
    /\ pc' = "eval"
    /\ step_arg' = StepArg(heap, param)
    /\ UNCHANGED << last_ret, cost_at >>
    /\ UNCHANGED << config, heap, param, cost_history, exec_history, step,
                    status, oracle_calls >>

\* line 222, inside the step: an evaluation that is not the step's last
StepEval ==
    /\ pc = "eval"
    /\ ~OracleFails
    /\ step_calls + 1 < StepCalls(opt, p)
    /\ oracle_calls' = oracle_calls + 1
    /\ step_calls' = step_calls + 1
    /\ UNCHANGED threadvars
    /\ UNCHANGED << config, heap, param, cost_history, exec_history, step,
                    status, pc, steps_invoked >>

\* (faulty variant: `opt.step(cost_function, param)`, the result dropped)
StepResultDropped(new) == UNCHANGED << heap, param >>

\* the array opt.step returns, bound to `param` by line 222: PennyLane is
\* free to build a new array or to update its argument in place
StepReturns(new) ==
    \/ /\ heap' = [heap EXCEPT ![LocalObj] = new]
       /\ param' = LocalObj
    \/ /\ heap' = [heap EXCEPT ![param] = new]
       /\ param' = param

\* line 222, the last evaluation of the step, the update and the return
StepEvalLast ==
    /\ pc = "eval"
    /\ ~OracleFails
    /\ step_calls + 1 = StepCalls(opt, p)
    /\ oracle_calls' = oracle_calls + 1
    /\ step_calls' = step_calls + 1
    /\ \E new \in Vectors(p, ParamVals) :
         /\ StepReturns(new)
         /\ last_ret' = new
    /\ step_arg' = << >>
    /\ UNCHANGED cost_at
    /\ pc' = PcAfterStep
    /\ UNCHANGED << config, cost_history, exec_history, step, status,
                    steps_invoked >>

\* line 222, the cost function raising inside the step
StepRaises ==
    /\ pc = "eval"
    /\ OracleFails
    /\ oracle_calls' = oracle_calls + 1
    /\ step_calls' = step_calls + 1
    /\ pc' = "raised"
    /\ UNCHANGED threadvars
    /\ UNCHANGED << config, heap, param, cost_history, exec_history, step,
                    status, steps_invoked >>

\* ------------------------------------------- run_optimizer, continued

\* line 225
MonitorCost ==
    /\ pc = "cost"
    /\ ~OracleFails
    /\ oracle_calls' = oracle_calls + 1
    /\ \E y \in OracleVals(noisy, CostArg(heap, param)) :
         cost_history' = Record(cost_history, y)
    /\ pc' = PcAfterCost
    /\ cost_at' = CostArg(heap, param)
    /\ UNCHANGED << step_arg, last_ret >>
    /\ UNCHANGED << config, stepvars, heap, param, exec_history, step, status >>

\* line 225, the cost function raising
MonitorCostRaises ==
    /\ pc = "cost"
    /\ OracleFails
    /\ oracle_calls' = oracle_calls + 1
    /\ pc' = "raised"
    /\ UNCHANGED threadvars
    /\ UNCHANGED << config, stepvars, heap, param, cost_history, exec_history,
                    step, status >>

\* line 226
AppendExec ==
    /\ pc = "exec"
    /\ exec_history' = Record(exec_history, NextExec(step, execs_per_step))
    /\ pc' = "loop"
    /\ UNCHANGED threadvars
    /\ UNCHANGED << config, stepvars, heap, param, cost_history, step, status,
                    oracle_calls >>

\* the script's next call of run_optimizer with the same init_param
\* (lines 267 and 280, lines 403 and 458)
NextRun ==
    /\ pc = "done"
    /\ run < RunsPerInitParam
    /\ run' = run + 1
    /\ Enter(heap[CallerObj])
    /\ heap' = [heap EXCEPT ![LocalObj] = << >>]
    /\ UNCHANGED << terms, fail_at, init_before, noisy, seed, rng, traj,
                    first >>

Next ==
    \/ Start
    \/ InitialCost
    \/ InitialCostRaises
    \/ InitExec
    \/ LoopNext
    \/ LoopExit
    \/ StepBegin
    \/ StepEval
    \/ StepEvalLast
    \/ StepRaises
    \/ MonitorCost
    \/ MonitorCostRaises
    \/ AppendExec
    \/ NextRun

Spec == Init /\ [][Next]_vars

\* ------------------------------ the script executed with a seed, twice

args == << opt, terms, p, num_steps, interval, execs_per_step, fail_at,
           noisy, seed >>
locals == << param, cost_history, exec_history, step, status, oracle_calls >>

\* theta + sign * delta, the two points SPSA evaluates the cost at
Shifted(theta, d, sign) == [i \in 1..Len(theta) |-> theta[i] + sign * d[i]]

\* SPSA's update: theta_i - a_k * (y+ - y-) / (2 c_k) * delta_i
SpsaUpdate(theta, d, yp, ym) ==
    [i \in 1..Len(theta) |-> theta[i] - ((yp - ym) \div 2) * d[i]]

\* the script starts: the generator holds whatever state it was created
\* with, the cost function has no noise, the optimizer is SPSA
InitSeeded ==
    /\ opt = "SPSA"
    /\ terms \in {SingleTerm, HamiltonianTerms}
    /\ p \in 1..MaxP
    /\ num_steps \in -1..MaxSteps
    /\ interval \in Intervals
    /\ execs_per_step = ExecsPerStep(opt, terms, p)
    /\ fail_at \in 0..MaxFailAt
    /\ init_before = << >>
    /\ heap = [o \in Objs |-> << >>]
    /\ param = NoObj
    /\ cost_history = << >>
    /\ exec_history = << >>
    /\ step = -1
    /\ status = << >>
    /\ pc = "script"
    /\ oracle_calls = 0
    /\ step_calls = 0
    /\ steps_invoked = 0
    /\ step_arg = << >>
    /\ last_ret = << >>
    /\ cost_at = << >>
    /\ noisy = FALSE
    /\ seed \in Seeds
    /\ rng \in RngStates
    /\ traj = << >>
    /\ first = NoFirst
    /\ run = 1

\* lines 187-190: the seed, then init_param drawn from the generator
SeedAndDraw ==
    /\ pc = "script"
    /\ LET s == SeedState(rng, seed) IN
         /\ heap' = [heap EXCEPT ![CallerObj] = DrawParams(s, p)]
         /\ init_before' = DrawParams(s, p)
         /\ rng' = RngAfter(s, p)
    /\ pc' = "start"
    /\ UNCHANGED << args, locals, stepvars, threadvars, traj, first, run >>

\* line 222 for SPSA, the last evaluation of the step and the return: the
\* perturbation comes from the generator, the two evaluations are made at
\* the argument shifted by it, and the update follows from them
SeededStepEvalLast ==
    /\ pc = "eval"
    /\ ~OracleFails
    /\ step_calls + 1 = StepCalls(opt, p)
    /\ oracle_calls' = oracle_calls + 1
    /\ step_calls' = step_calls + 1
    /\ LET d == DrawDelta(rng, p) IN
         \E yp \in OracleVals(noisy, Shifted(step_arg, d, 1)),
            ym \in OracleVals(noisy, Shifted(step_arg, d, -1)) :
              /\ StepReturns(SpsaUpdate(step_arg, d, yp, ym))
              /\ last_ret' = SpsaUpdate(step_arg, d, yp, ym)
              /\ traj' = Append(traj, SpsaUpdate(step_arg, d, yp, ym))
    /\ rng' = RngAfter(rng, p)
    /\ step_arg' = << >>
    /\ pc' = PcAfterStep
    /\ UNCHANGED << args, cost_history, exec_history, step, status,
                    steps_invoked, cost_at, first, run, init_before >>

\* the script is executed again, in a new process, with the same
\* configuration; what the first execution produced is kept for comparison
Reexecute ==
    /\ pc = "done"
    /\ run = 1
    /\ run' = 2
    /\ first' = [traj |-> traj, cost |-> cost_history, exec |-> exec_history,
                 init |-> init_before]
    /\ rng' \in RngStates
    /\ init_before' = << >>
    /\ heap' = [o \in Objs |-> << >>]
    /\ param' = NoObj
    /\ cost_history' = << >>
    /\ exec_history' = << >>
    /\ step' = -1
    /\ status' = << >>
    /\ pc' = "script"
    /\ oracle_calls' = 0
    /\ step_calls' = 0
    /\ steps_invoked' = 0
    /\ step_arg' = << >>
    /\ last_ret' = << >>
    /\ cost_at' = << >>
    /\ traj' = << >>
    /\ UNCHANGED args

NextSeeded ==
    \/ SeedAndDraw
    \/ Start
    \/ InitialCost
    \/ InitialCostRaises
    \/ InitExec
    \/ LoopNext
    \/ LoopExit
    \/ StepBegin
    \/ StepEval
    \/ SeededStepEvalLast
    \/ StepRaises
    \/ MonitorCost
    \/ MonitorCostRaises
    \/ AppendExec
    \/ Reexecute

SpecSeeded == InitSeeded /\ [][NextSeeded]_vars

\* ---------------------------------------------------------- properties

\* the run has returned its two histories
Completed == pc = "done"

\* C1: for every valid configuration (num_steps >= 0), when run_optimizer
\* completes, both histories hold num_steps + 1 entries.
C1_HistoryLengths ==
    (Completed /\ num_steps >= 0) =>
        /\ Len(cost_history) = num_steps + 1
        /\ Len(exec_history) = num_steps + 1

C1_Witness ==
    /\ Completed
    /\ num_steps >= 2
    /\ Len(cost_history) = num_steps + 1
    /\ Len(exec_history) = num_steps + 1

\* C2: exec_history starts at 0 and every step adds exactly execs_per_step,
\* so it never decreases and its final entry is num_steps * execs_per_step.
C2_ExecIncrements ==
    /\ Len(exec_history) >= 1 => exec_history[1] = 0
    /\ \A i \in 2..Len(exec_history) :
         /\ exec_history[i] = exec_history[i - 1] + execs_per_step
         /\ exec_history[i] >= exec_history[i - 1]
    /\ (Completed /\ num_steps >= 0) =>
         Last(exec_history) = num_steps * execs_per_step

C2_Witness ==
    /\ Completed
    /\ num_steps = 2
    /\ opt = "SPSA"
    /\ terms = HamiltonianTerms
    /\ Last(exec_history) = 2 * (2 * HamiltonianTerms)

\* C3 as claimed: after a completed run the last entry of exec_history is
\* the number of evaluations of the cost function made during the run, those
\* of the run loop (lines 209 and 225) included.
C3_AllCallsCounted ==
    (Completed /\ num_steps >= 0) => Last(exec_history) = oracle_calls

\* C3 as amended: after a completed run the last entry of exec_history
\* counts the circuit executions of the strategy's steps only, one per term
\* for each evaluation a step makes; the evaluations the run loop makes to
\* record the cost, one per entry of cost_history, are not counted.
C3_StepCallsCounted ==
    Completed =>
        Last(exec_history) = terms * (oracle_calls - Len(cost_history))

C3_Witness ==
    /\ Completed
    /\ num_steps = 2
    /\ opt = "GD"
    /\ p = 2
    /\ oracle_calls = 11
    /\ Last(exec_history) = terms * 8

\* C4 as claimed: when the cost function raises on its third call the run
\* aborts after exactly 2 completed steps with 3 entries in cost_history.
C4_ThirdCallTwoSteps ==
    (pc = "raised" /\ fail_at = 3) =>
        /\ Len(exec_history) - 1 = 2
        /\ Len(cost_history) = 3

\* C4 as amended: when the cost function raises on its third call the run
\* aborts inside its first step: no step has completed, and cost_history
\* holds exactly the initial entry, with no partial entry for the step.
C4_ThirdCallFirstStep ==
    (pc = "raised" /\ fail_at = 3) =>
        /\ steps_invoked = 1
        /\ step = 0
        /\ Len(exec_history) - 1 = 0
        /\ Len(cost_history) = 1

C4_Witness ==
    /\ pc = "raised"
    /\ fail_at = 3
    /\ oracle_calls = 3
    /\ num_steps = 2

\* opt.step has returned and no later call of it has begun
StepReturned == steps_invoked >= 1 /\ pc \in {"cost", "exec", "loop", "done"}

C7_InitParamPreserved ==
    /\ heap[CallerObj] = init_before
    /\ param # CallerObj
    /\ pc = "cost0" => heap[param] = init_before

C7_Witness ==
    /\ run = 2
    /\ Completed
    /\ steps_invoked >= 1
    /\ heap[param] # init_before
    /\ heap[CallerObj] = init_before

\* C8 as claimed: a call with num_steps < 0 is rejected; it never returns
\* histories.
C8_NegativeStepsRejected ==
    num_steps < 0 => ~Completed

\* C9: the initial cost is recorded before any step is invoked; in each
\* step the strategy is invoked, then the cost is appended, then the count;
\* no step begins before the two appends of the previous one.
C9_StepOrder ==
    [][ /\ steps_invoked' = steps_invoked + 1 =>
             /\ Len(cost_history) = steps_invoked + 1
             /\ Len(exec_history) = steps_invoked + 1
        /\ Len(cost_history') > Len(cost_history) =>
             /\ pc # "eval"
             /\ Len(cost_history) = steps_invoked
             /\ Len(exec_history) = steps_invoked
        /\ Len(exec_history') > Len(exec_history) =>
             /\ Len(exec_history) = steps_invoked
             /\ Len(cost_history) = steps_invoked + 1
      ]_vars

C9_Witness ==
    /\ pc = "loop"
    /\ steps_invoked = 2
    /\ Len(cost_history) = 3
    /\ Len(exec_history) = 3

\* C10 as claimed: in a gradient-descent run exec_history[i] = i * 2 * p
\* (entry i of the script is entry i + 1 here).
C10_GradientTwoP ==
    opt = "GD" =>
        \A i \in 1..Len(exec_history) : exec_history[i] = (i - 1) * 2 * p

\* C10 as amended: in a gradient-descent run exec_history[i] is
\* i * 2 * p * terms, terms being the number of terms of the measured
\* observable: 1 in the first comparison, 15 for the H2 Hamiltonian.
C10_GradientTwoPPerTerm ==
    opt = "GD" =>
        \A i \in 1..Len(exec_history) :
            exec_history[i] = (i - 1) * 2 * p * terms

C10_Witness ==
    /\ opt = "GD"
    /\ p = 2
    /\ terms = HamiltonianTerms
    /\ Len(exec_history) = 3
    /\ exec_history[3] = 2 * 2 * 2 * HamiltonianTerms

\* s is a prefix of t
IsPrefix(s, t) == Len(s) <= Len(t) /\ \A i \in 1..Len(s) : s[i] = t[i]

\* C12: during a run an entry written to cost_history or exec_history is
\* never changed or removed: the histories at any point are prefixes of the
\* histories at every later point of the run (a new call starts new lists).
C12_AppendOnly ==
    [][ run' = run =>
          /\ IsPrefix(cost_history, cost_history')
          /\ IsPrefix(exec_history, exec_history')
      ]_vars

C12_Witness ==
    /\ Completed
    /\ Len(cost_history) = 3
    /\ Len(exec_history) = 3
    /\ cost_history[1] # cost_history[3]

\* C13: the vector passed to a step is the vector the previous step
\* returned (the copy of the initial parameters for the first step); every
\* entry of cost_history is the cost evaluated at the vector the matching
\* step returned (the initial parameters for entry 0); at the start of
\* iteration `step` both histories hold step + 1 entries, so the status
\* line shows their latest entries.
C13_ParameterThreading ==
    /\ pc = "eval" =>
          /\ step_arg = last_ret
          /\ steps_invoked = 1 => step_arg = init_before
    /\ pc \in {"exec0", "exec"} =>
          /\ Len(cost_history) = steps_invoked + 1
          /\ cost_at = last_ret
          /\ steps_invoked = 0 => cost_at = init_before
    /\ pc = "step" =>
          /\ Len(cost_history) = step + 1
          /\ Len(exec_history) = step + 1
          /\ StatusDue(step, interval) =>
                status = << step, Last(exec_history), Last(cost_history) >>

C13_Witness ==
    /\ pc = "eval"
    /\ steps_invoked = 2
    /\ step = 1
    /\ step_arg = last_ret
    /\ step_arg # init_before
    /\ cost_at = last_ret
    /\ Len(cost_history) = 2

====
